---- MODULE Spec2Model ----
(***************************************************************************)
(* ScopeFoundry: the settings path registry of BaseApp                     *)
(* (src/base_app/base_app.py) and the view / plugin machinery of           *)
(* DataBrowser (src/data_browser/data_browser.py).                         *)
(*                                                                         *)
(* Representation.  A path string is held as the sequence of its           *)
(* "/"-separated segments ("app/x" is <<"app", "x">>), so that             *)
(* path.split("/") is the sequence itself, parts[0] its first element and  *)
(* parts[-1] its last one.  A Python value is a tagged record: PyInt(1) is *)
(* the int 1 and PyStr("1") the str "1"; they are different values.  A     *)
(* dict is a function whose DOMAIN is its key set.  An operation of the    *)
(* program is an operator from the object's state (and the arguments) to   *)
(* the state after it and what it returned; an action applies it.          *)
(***************************************************************************)
EXTENDS Integers, Sequences, FiniteSets, TLC

VARIABLES
    setting_paths,      \* BaseApp._setting_paths: dict path -> LoggedQuantity
    val,                \* LoggedQuantity.val of every setting
    protected,          \* LoggedQuantity.protected of every setting
    proposed_values,    \* LoggedQuantity.proposed_values: dict label -> value
    ret,                \* the last operation, and what it returned or raised
    views,              \* DataBrowser.views: OrderedDict, as its items()
    view_loaded,        \* view.view_loaded of every view object
    setup_count,        \* how often view.setup() ran, of every view object
    view_stack,         \* the widgets of view_stack, each named by its view
    stack_index,        \* view_stack.currentIndex()
    view_stack_indices, \* DataBrowser.view_stack_indices: dict name -> index
    current_view,       \* DataBrowser.current_view
    s_data_filename,    \* settings["data_filename"]
    s_auto_select_view, \* settings["auto_select_view"]
    s_view_name,        \* settings["view_name"]
    choices,            \* the choice list of the view_name setting
    plugin_update_funcs,\* DataBrowser.plugin_update_funcs, each by its plugin
    plugins,            \* DataBrowser.plugins: dict name -> plugin
    notified,           \* view.on_change_data_filename calls of the last step
    plugin_calls,       \* plugin.update_if_showing calls of the last step
    ini_file            \* what ini_io.save_settings wrote to the ini file

appvars == <<setting_paths, val, protected, proposed_values>>
lqvars == <<val, protected, proposed_values>>
dbvars == <<views, view_loaded, setup_count, view_stack, stack_index,
            view_stack_indices, current_view, s_data_filename,
            s_auto_select_view, s_view_name, choices, plugin_update_funcs,
            plugins, notified, plugin_calls>>
vars == <<setting_paths, val, protected, proposed_values, ret, views,
          view_loaded, setup_count, view_stack, stack_index,
          view_stack_indices, current_view, s_data_filename,
          s_auto_select_view, s_view_name, choices, plugin_update_funcs,
          plugins, notified, plugin_calls, ini_file>>
fsvars == <<ini_file>>

----------------------------------------------------------------------------
(* Bounds and sample inputs *)

\* a settings mapping handed to a bulk operation has at most MaxEntries keys
MaxEntries == 3
\* a list of paths handed to read_settings has at most MaxPaths elements
MaxPaths == 2
\* at most MaxPlugins calls of add_plugin
MaxPlugins == 2
\* setup_count stops counting at MaxSetups
MaxSetups == 2

\* Python's None
None == "None"
PyInt(i) == [int |-> i]
PyStr(s) == [str |-> s]
\* "no entry" in a dict of proposed values
NoValue == [none |-> TRUE]

\* The LoggedQuantity objects that collaborators of a BaseApp create.  lq1 and
\* lq2 are two different objects whose path is the same.
LQS == {"lq1", "lq2", "lq3"}
\* <<"app", "gone">> is the path of no setting
PATHS == {<<"app", "x">>, <<"hw", "y">>, <<"app", "gone">>}
\* the LQCollections handed to add_lq_collection_to_settings_path
LQCollections == {{"lq1", "lq3"}, {"lq2"}}

\* The view objects handed to DataBrowser.add_view: FI is the FileInfoView of
\* the constructor; A1 and A2 are two views whose name is "A".
VIEWS == {"FI", "A1", "A2", "B1"}
ViewName(v) ==
    CASE v = "FI" -> "file_info"
      [] v \in {"A1", "A2"} -> "A"
      [] v = "B1" -> "B"
\* the plugin objects handed to DataBrowser.add_plugin
PLUGINS == {"P1", "P2"}
PluginName(pl) == IF pl = "P1" THEN "P" ELSE "Q"

\* the settings of the DataBrowser (s.New in __init__), of the views and of
\* the plugins
AppSettings == {"app.data_filename", "app.browse_dir", "app.file_filter",
                "app.auto_select_view", "app.view_name"}
ViewSettings(v) ==
    CASE v = "FI" -> {}
      [] v = "A1" -> {"A1.scale"}
      [] v = "A2" -> {"A2.scale"}
      [] v = "B1" -> {"B1.gain"}
PluginSettings(pl) == IF pl = "P1" THEN {"P1.bins"} ELSE {"P2.bins"}

\* lq.path
LqPath(lq) ==
    CASE lq \in {"lq1", "lq2"} -> <<"app", "x">>
      [] lq = "lq3" -> <<"hw", "y">>
      [] lq = "app.data_filename" -> <<"app", "data_filename">>
      [] lq = "app.browse_dir" -> <<"app", "browse_dir">>
      [] lq = "app.file_filter" -> <<"app", "file_filter">>
      [] lq = "app.auto_select_view" -> <<"app", "auto_select_view">>
      [] lq = "app.view_name" -> <<"app", "view_name">>
      [] lq \in {"A1.scale", "A2.scale"} -> <<"view", "A", "scale">>
      [] lq = "B1.gain" -> <<"view", "B", "gain">>
      [] lq = "P1.bins" -> <<"plugin", "P", "bins">>
      [] lq = "P2.bins" -> <<"plugin", "Q", "bins">>
\* lq.name
LqName(lq) == LqPath(lq)[Len(LqPath(lq))]

\* the file names the data_filename setting takes; "" is its initial value
FILES == {"", "x.dat", "y.txt"}
\* Path(fname).is_file()
IsFile(fname) == fname \in {"x.dat", "y.txt"}
\* view.is_file_supported(fname)
is_file_supported(v, fname) ==
    \/ fname = "x.dat" /\ v \in {"A1", "A2", "B1"}
    \/ fname = "y.txt" /\ v \in {"A1", "A2"}

\* the paths looked up in a DataBrowser
DBPATHS == {<<"view">>, <<"app", "view_name">>,
            <<"view", "A", "scale">>, <<"view", "A", "nosuch">>,
            <<"view", "nosuch", "data_filename">>,
            <<"plugin", "P", "bins">>}

\* the values the int settings take, and their string forms in an ini file
INTS == {0, 1}
Values == {PyInt(i) : i \in INTS}
IniStrings == {PyStr(ToString(i)) : i \in INTS}

\* file names, as the sequence of their components
FNAMES == {<<"cfg", "a.ini">>}
LABELS == {"a.ini"}

----------------------------------------------------------------------------
(* LoggedQuantity (ScopeFoundry.logged_quantity, not part of the sources) *)

\* the state of the app object as one record
Self == [setting_paths |-> setting_paths, val |-> val,
         protected |-> protected, proposed_values |-> proposed_values]

\* int(s) on the strings an ini file holds
ParseInt(s) == CHOOSE i \in INTS : ToString(i) = s

\* LoggedQuantity.coerce_to_type of an int setting: int(x)
coerce_to_type(x) == IF "str" \in DOMAIN x THEN PyInt(ParseInt(x.str)) ELSE x

\* lq.update_value(new_val)
update_value(a, lq, new_val) ==
    [a EXCEPT !.val[lq] = coerce_to_type(new_val)]

\* lq.propose_value(name, value)
propose_value(a, lq, name, value) ==
    [a EXCEPT !.proposed_values[lq][name] = value]

\* lq.ini_string_value()
ini_string_value(a, lq) == PyStr(ToString(a.val[lq].int))

----------------------------------------------------------------------------
(* BaseApp *)

\* d[k] = v on a dict
DictSet(d, k, v) == [x \in DOMAIN d \cup {k} |-> IF x = k THEN v ELSE d[x]]
\* d.pop(k, None)
DictPop(d, k) == [x \in DOMAIN d \ {k} |-> d[x]]
EmptyDict == [x \in {} |-> None]

\* a registration that keeps the setting already registered at the path
add_setting_path_keep_first(a, lq) ==
    IF LqPath(lq) \in DOMAIN a.setting_paths THEN a
    ELSE [a EXCEPT !.setting_paths = DictSet(a.setting_paths, LqPath(lq), lq)]

add_setting_path(a, lq) ==
    [a EXCEPT !.setting_paths = DictSet(a.setting_paths, LqPath(lq), lq)]

remove_setting_path(a, lq) ==
    [a EXCEPT !.setting_paths = DictPop(a.setting_paths, LqPath(lq))]

\* the loop of add_lq_collection_to_settings_path over settings.as_dict();
\* the names of a collection are distinct, so are the paths of its members
RECURSIVE add_lq_collection_to_settings_path(_, _)
add_lq_collection_to_settings_path(a, settings) ==
    IF settings = {} THEN a
    ELSE LET lq == CHOOSE x \in settings : TRUE
         IN add_lq_collection_to_settings_path(add_setting_path(a, lq),
                                                settings \ {lq})

get_lq(a, path) ==
    IF path \in DOMAIN a.setting_paths THEN a.setting_paths[path] ELSE None

write_setting(a, path, value) ==
    LET lq == get_lq(a, path)
    IN IF lq = None THEN [app |-> a, res |-> "MISSING"]
       ELSE [app |-> update_value(a, lq, value), res |-> "SUCCESS"]

\* a safe write that does not look at the protected flag
write_setting_safe_unchecked(a, path, value) ==
    LET lq == get_lq(a, path)
    IN IF lq = None THEN [app |-> a, res |-> "MISSING"]
       ELSE [app |-> update_value(a, lq, value), res |-> "SUCCESS"]

write_setting_safe(a, path, value) ==
    LET lq == get_lq(a, path)
    IN IF lq = None THEN [app |-> a, res |-> "MISSING"]
       ELSE IF a.protected[lq] THEN [app |-> a, res |-> "PROTECTED"]
       ELSE [app |-> update_value(a, lq, value), res |-> "SUCCESS"]

\* a bulk write that gives up at the first entry that is not written
RECURSIVE write_settings_safe_abort(_, _, _, _)
write_settings_safe_abort(a, settings, i, report) ==
    IF i > Len(settings) THEN [app |-> a, res |-> report]
    ELSE LET w == write_setting_safe(a, settings[i][1], settings[i][2])
         IN write_settings_safe_abort(
                w.app, settings,
                IF w.res = "SUCCESS" THEN i + 1 ELSE Len(settings) + 1,
                DictSet(report, settings[i][1], w.res))

\* the loop of write_settings_safe from item i of settings.items() on
RECURSIVE write_settings_safe_loop(_, _, _, _)
write_settings_safe_loop(a, settings, i, report) ==
    IF i > Len(settings) THEN [app |-> a, res |-> report]
    ELSE LET w == write_setting_safe(a, settings[i][1], settings[i][2])
         IN write_settings_safe_loop(w.app, settings, i + 1,
                                     DictSet(report, settings[i][1], w.res))

write_settings_safe(a, settings) ==
    write_settings_safe_loop(a, settings, 1, EmptyDict)

\* a propose_settings_values that gives up at the first unresolved path
RECURSIVE propose_settings_values_break(_, _, _, _)
propose_settings_values_break(a, name, settings, i) ==
    IF i > Len(settings) THEN a
    ELSE LET lq == get_lq(a, settings[i][1])
         IN IF lq = None THEN a
            ELSE propose_settings_values_break(
                    propose_value(a, lq, name, settings[i][2]),
                    name, settings, i + 1)

\* the loop of propose_settings_values from item i of settings.items() on
RECURSIVE propose_settings_values_loop(_, _, _, _)
propose_settings_values_loop(a, name, settings, i) ==
    IF i > Len(settings) THEN a
    ELSE LET lq == get_lq(a, settings[i][1])
         IN propose_settings_values_loop(
                IF lq = None THEN a
                ELSE propose_value(a, lq, name, settings[i][2]),
                name, settings, i + 1)

propose_settings_values(a, name, settings) ==
    propose_settings_values_loop(a, name, settings, 1)

\* Path(fname).name
PathName(fname) == fname[Len(fname)]

\* a load that records the proposals and writes nothing
settings_load_ini_propose_only(a, fname, settings) ==
    [app |-> propose_settings_values(a, PathName(fname), settings),
     res |-> settings,
     report |-> [path \in {settings[i][1] : i \in 1..Len(settings)} |->
                    "MISSING"]]

\* a load that proposes only the values it could write
settings_load_ini_written_only(a, fname, settings) ==
    LET w == write_settings_safe(a, settings)
        written == SelectSeq(settings, LAMBDA e : w.res[e[1]] = "SUCCESS")
    IN [app |-> propose_settings_values(w.app, PathName(fname), written),
        res |-> settings, report |-> w.res]

\* settings_load_ini(fname), settings being what ini_io.load_settings(fname)
\* read from the file
settings_load_ini(a, fname, settings) ==
    LET w == write_settings_safe(a, settings)
    IN [app |-> propose_settings_values(w.app, PathName(fname), settings),
        res |-> settings, report |-> w.res]

\* read_setting: lq.val or lq.ini_string_value() of None raises AttributeError
read_setting(a, path, ini) ==
    LET lq == get_lq(a, path)
    IN IF lq = None THEN [raised |-> "AttributeError"]
       ELSE [raised |-> None,
             res |-> IF ini THEN ini_string_value(a, lq) ELSE a.val[lq]]

\* the dict comprehension of read_settings over the list paths, from i on
RECURSIVE read_settings_loop(_, _, _, _, _)
read_settings_loop(a, paths, ini, i, d) ==
    IF i > Len(paths) THEN [raised |-> None, res |-> d]
    ELSE LET r == read_setting(a, paths[i], ini)
         IN IF r.raised # None THEN [raised |-> r.raised]
            ELSE read_settings_loop(a, paths, ini, i + 1,
                                    DictSet(d, paths[i], r.res))

read_settings(a, paths, ini) == read_settings_loop(a, paths, ini, 1, EmptyDict)

\* a list of the keys of a dict (paths = self._setting_paths)
RECURSIVE KeyList(_)
KeyList(keys) ==
    IF keys = {} THEN <<>>
    ELSE LET k == CHOOSE x \in keys : TRUE IN <<k>> \o KeyList(keys \ {k})

\* settings.items() of a dict
Items(d) ==
    LET keys == KeyList(DOMAIN d)
    IN [i \in 1..Len(keys) |-> <<keys[i], d[keys[i]]>>]

\* settings_save_ini(fname); file is what ini_io.save_settings is given
settings_save_ini(a, fname) ==
    LET r == read_settings(a, KeyList(DOMAIN a.setting_paths), TRUE)
    IN IF r.raised # None THEN [app |-> a, raised |-> r.raised]
       ELSE [app |-> propose_settings_values(a, PathName(fname),
                                             Items(r.res)),
             raised |-> None,
             file |-> Items(r.res)]

----------------------------------------------------------------------------
(* DataBrowser *)

\* the state of the DataBrowser object as one record
DB == [setting_paths |-> setting_paths, views |-> views,
       view_loaded |-> view_loaded, setup_count |-> setup_count,
       view_stack |-> view_stack, stack_index |-> stack_index,
       view_stack_indices |-> view_stack_indices,
       current_view |-> current_view, s_data_filename |-> s_data_filename,
       s_auto_select_view |-> s_auto_select_view,
       s_view_name |-> s_view_name, choices |-> choices,
       plugin_update_funcs |-> plugin_update_funcs, plugins |-> plugins,
       notified |-> notified, plugin_calls |-> plugin_calls]

\* OrderedDict: items[key] = value keeps the place of a key that is there
ODictHas(items, key) == \E i \in 1..Len(items) : items[i][1] = key
ODictGet(items, key) ==
    IF ODictHas(items, key)
    THEN items[CHOOSE i \in 1..Len(items) : items[i][1] = key][2]
    ELSE None
ODictSet(items, key, value) ==
    IF ODictHas(items, key)
    THEN [i \in 1..Len(items) |->
            IF items[i][1] = key THEN <<key, value>> ELSE items[i]]
    ELSE Append(items, <<key, value>>)
ODictKeys(items) == [i \in 1..Len(items) |-> items[i][1]]

add_view(d, new_view) ==
    LET d1 == [d EXCEPT !.views = ODictSet(d.views, ViewName(new_view),
                                           new_view)]
        d2 == add_lq_collection_to_settings_path(d1, ViewSettings(new_view))
    IN [d2 EXCEPT !.choices = ODictKeys(d2.views)]

\* the buttons and the keyboard shortcuts of the ui are left out
add_plugin(d, plugin) ==
    add_lq_collection_to_settings_path(
        [d EXCEPT !.plugin_update_funcs = Append(@, plugin),
                  !.plugins = DictSet(@, PluginName(plugin), plugin)],
        PluginSettings(plugin))

load_view(d, new_view) == add_view(d, new_view)

\* a setup_view that sets the view up whenever it is activated
setup_view_always(d, view) ==
    LET d1 == [d EXCEPT
                !.setup_count[view] =
                    IF @ < MaxSetups THEN @ + 1 ELSE @,
                !.view_stack = Append(@, d.current_view),
                !.view_stack_indices =
                    DictSet(@, ViewName(view), Len(d.view_stack)),
                !.view_loaded[view] = TRUE]
    IN [d1 EXCEPT !.current_view = view,
                  !.stack_index = d1.view_stack_indices[ViewName(view)]]

\* view_stack.addWidget appends the widget and returns its index; the first
\* widget of a QStackedWidget becomes its current one
setup_view(d, view) ==
    LET d1 == IF ~d.view_loaded[view]
              THEN [d EXCEPT
                      !.setup_count[view] =
                          IF @ < MaxSetups THEN @ + 1 ELSE @,
                      !.view_stack = Append(@, d.current_view),
                      !.stack_index = IF d.view_stack = <<>> THEN 0 ELSE @,
                      !.view_stack_indices =
                          DictSet(@, ViewName(view), Len(d.view_stack)),
                      !.view_loaded[view] = TRUE]
              ELSE d
    IN [d1 EXCEPT !.current_view = view,
                  !.stack_index = d1.view_stack_indices[ViewName(view)]]

\* self.current_view.on_change_data_filename(fname)
Notify(d, fname) ==
    [d EXCEPT !.notified = Append(@, <<d.current_view, fname>>)]

on_change_view_name(d) ==
    LET d1 == [d EXCEPT !.current_view = ODictGet(d.views, d.s_view_name)]
        d2 == setup_view(d1, d1.current_view)
        fname == d2.s_data_filename
    IN IF IsFile(fname) THEN Notify(d2, fname) ELSE d2

\* settings["view_name"] = value: LoggedQuantity.update_value calls the
\* listeners when the value changes
set_view_name(d, value) ==
    IF value = d.s_view_name THEN d
    ELSE on_change_view_name([d EXCEPT !.s_view_name = value])

\* an auto_select_view that looks through the views first to last
RECURSIVE auto_select_view_forward(_, _, _)
auto_select_view_forward(items, fname, i) ==
    IF i < 1 THEN "file_info"
    ELSE LET j == Len(items) + 1 - i
         IN IF is_file_supported(items[j][2], fname) THEN items[j][1]
            ELSE auto_select_view_forward(items, fname, i - 1)

\* the loop of auto_select_view over list(self.views.items())[::-1], at item i
RECURSIVE auto_select_view_loop(_, _, _)
auto_select_view_loop(items, fname, i) ==
    IF i < 1 THEN "file_info"
    ELSE IF is_file_supported(items[i][2], fname) THEN items[i][1]
    ELSE auto_select_view_loop(items, fname, i - 1)

auto_select_view(d, fname) ==
    auto_select_view_loop(d.views, fname, Len(d.views))

on_change_data_filename(d) ==
    LET fname == d.s_data_filename
    IN IF ~IsFile(fname) THEN d
       ELSE LET view_name == auto_select_view(d, fname)
                d1 == IF /\ d.s_auto_select_view
                         /\ view_name # ViewName(d.current_view)
                      THEN LET d2 == set_view_name(d, view_name)
                           IN setup_view(d2, ODictGet(d2.views, view_name))
                      ELSE d
            IN Notify(d1, fname)

\* a plugin handler that, like the view handler, returns when the file name
\* is no file
on_change_data_filename_handle_plugins_files_only(d) ==
    IF ~IsFile(d.s_data_filename) THEN d
    ELSE [d EXCEPT !.plugin_calls =
            @ \o [i \in 1..Len(d.plugin_update_funcs) |->
                    <<d.plugin_update_funcs[i], d.s_data_filename>>]]

on_change_data_filename_handle_plugins(d) ==
    [d EXCEPT !.plugin_calls =
        @ \o [i \in 1..Len(d.plugin_update_funcs) |->
                <<d.plugin_update_funcs[i], d.s_data_filename>>]]

\* settings["data_filename"] = value: the listeners of data_filename, in the
\* order __init__ added them
set_data_filename(d, value) ==
    IF value = d.s_data_filename THEN d
    ELSE on_change_data_filename_handle_plugins(
            on_change_data_filename([d EXCEPT !.s_data_filename = value]))

\* parts[-1] in settings, settings.get_lq(parts[-1])
CollectionGet(settings, name) ==
    IF \E lq \in settings : LqName(lq) = name
    THEN CHOOSE lq \in settings : LqName(lq) = name
    ELSE None

\* DataBrowser.get_lq; parts[1] of a one-segment path raises IndexError
DataBrowser_get_lq(d, path) ==
    LET parts == path
        last == parts[Len(parts)]
    IN IF parts[1] \in {"view", "plugin"} /\ Len(parts) < 2
       THEN [db |-> d, raised |-> "IndexError"]
       ELSE IF parts[1] = "view"
       THEN LET view == ODictGet(d.views, parts[2])
            IN IF view # None
               THEN [db |-> load_view(d, view),
                     raised |-> None,
                     res |-> CollectionGet(ViewSettings(view), last)]
               ELSE [db |-> d, raised |-> None,
                     res |-> CollectionGet(AppSettings, last)]
       ELSE IF parts[1] = "plugin"
       THEN LET plugin == IF parts[2] \in DOMAIN d.plugins
                          THEN d.plugins[parts[2]] ELSE None
            IN [db |-> d, raised |-> None,
                res |-> CollectionGet(IF plugin # None
                                      THEN PluginSettings(plugin)
                                      ELSE AppSettings, last)]
       ELSE [db |-> d, raised |-> None,
             res |-> CollectionGet(AppSettings, last)]

\* DataBrowser.__init__ up to the creation of the FileInfoView: the settings
\* made by s.New are registered, there is no view
BeforeViews ==
    add_lq_collection_to_settings_path(
        [setting_paths |-> EmptyDict, views |-> <<>>,
         view_loaded |-> [v \in VIEWS |-> FALSE],
         setup_count |-> [v \in VIEWS |-> 0],
         view_stack |-> <<>>, stack_index |-> -1,
         view_stack_indices |-> EmptyDict,
         current_view |-> None, s_data_filename |-> "",
         s_auto_select_view |-> TRUE, s_view_name |-> "file_info",
         choices |-> <<"0">>, plugin_update_funcs |-> <<>>,
         plugins |-> EmptyDict, notified |-> <<>>, plugin_calls |-> <<>>],
        AppSettings)

\* self.current_view = self.add_view(FileInfoView(self));
\* self.setup_view(self.current_view)
Constructed ==
    LET d1 == add_view(BeforeViews, "FI")
    IN setup_view([d1 EXCEPT !.current_view = "FI"], "FI")

----------------------------------------------------------------------------
(* Inputs *)

\* sequences over S of length at most n without a repeated element
RECURSIVE DistinctSeqs(_, _)
DistinctSeqs(S, n) ==
    IF n = 0 THEN {<<>>}
    ELSE LET shorter == DistinctSeqs(S, n - 1)
         IN shorter \cup
            {Append(q, x) : <<q, x>> \in
                {t \in shorter \X S : \A i \in 1..Len(t[1]) : t[1][i] # t[2]}}

\* the dicts path -> value with at most MaxEntries keys, as their items()
RECURSIVE WithValues(_, _)
WithValues(paths, V) ==
    IF paths = <<>> THEN {<<>>}
    ELSE {<<(<<paths[1], v>>)>> \o rest :
            v \in V, rest \in WithValues(Tail(paths), V)}

Mappings(V) ==
    UNION {WithValues(ps, V) : ps \in DistinctSeqs(PATHS, MaxEntries)}

\* the lists of paths with at most MaxPaths elements
PathLists == UNION {[1..n -> PATHS] : n \in 0..MaxPaths}

----------------------------------------------------------------------------
(* The BaseApp state machine *)

Become(a) ==
    /\ setting_paths' = a.setting_paths
    /\ val' = a.val
    /\ protected' = a.protected
    /\ proposed_values' = a.proposed_values
    /\ UNCHANGED dbvars
    /\ UNCHANGED fsvars

BecomeDB(d) ==
    /\ setting_paths' = d.setting_paths
    /\ views' = d.views
    /\ view_loaded' = d.view_loaded
    /\ setup_count' = d.setup_count
    /\ view_stack' = d.view_stack
    /\ stack_index' = d.stack_index
    /\ view_stack_indices' = d.view_stack_indices
    /\ current_view' = d.current_view
    /\ s_data_filename' = d.s_data_filename
    /\ s_auto_select_view' = d.s_auto_select_view
    /\ s_view_name' = d.s_view_name
    /\ choices' = d.choices
    /\ plugin_update_funcs' = d.plugin_update_funcs
    /\ plugins' = d.plugins
    /\ notified' = d.notified
    /\ plugin_calls' = d.plugin_calls
    /\ UNCHANGED lqvars
    /\ UNCHANGED fsvars

\* the state d of a DataBrowser
IsDB(d) ==
    /\ setting_paths = d.setting_paths
    /\ views = d.views
    /\ view_loaded = d.view_loaded
    /\ setup_count = d.setup_count
    /\ view_stack = d.view_stack
    /\ stack_index = d.stack_index
    /\ view_stack_indices = d.view_stack_indices
    /\ current_view = d.current_view
    /\ s_data_filename = d.s_data_filename
    /\ s_auto_select_view = d.s_auto_select_view
    /\ s_view_name = d.s_view_name
    /\ choices = d.choices
    /\ plugin_update_funcs = d.plugin_update_funcs
    /\ plugins = d.plugins
    /\ notified = d.notified
    /\ plugin_calls = d.plugin_calls
    /\ ini_file = NoValue

\* the settings of the three registry objects of a plain BaseApp
InitLQ ==
    /\ val = [lq \in LQS |-> PyInt(0)]
    /\ protected = [lq \in LQS |-> FALSE]
    /\ proposed_values = [lq \in LQS |-> [l \in LABELS |-> NoValue]]

\* BaseApp.__init__: an empty registry; self.settings holds no setting yet
Init ==
    /\ IsDB([BeforeViews EXCEPT !.setting_paths = EmptyDict])
    /\ InitLQ
    /\ ret = [op |-> "__init__"]

\* the signal new_lq_added of a connected collection, or a direct call
AddSettingPath ==
    \E lq \in LQS :
        /\ Become(add_setting_path(Self, lq))
        /\ ret' = [op |-> "add_setting_path", lq |-> lq]

\* the signal lq_removed of a connected collection, or a direct call
RemoveSettingPath ==
    \E lq \in LQS :
        /\ Become(remove_setting_path(Self, lq))
        /\ ret' = [op |-> "remove_setting_path", lq |-> lq]

AddLqCollection ==
    \E settings \in LQCollections :
        /\ Become(add_lq_collection_to_settings_path(Self, settings))
        /\ ret' = [op |-> "add_lq_collection_to_settings_path"]

\* lq.protected = b, by the owner of the setting
SetProtected ==
    \E lq \in LQS, b \in BOOLEAN :
        /\ protected' = [protected EXCEPT ![lq] = b]
        /\ ret' = [op |-> "protected"]
        /\ UNCHANGED <<setting_paths, val, proposed_values>>
        /\ UNCHANGED dbvars
        /\ UNCHANGED fsvars

WriteSetting ==
    \E path \in PATHS, value \in Values :
        LET w == write_setting(Self, path, value)
        IN /\ Become(w.app)
           /\ ret' = [op |-> "write_setting", path |-> path,
                      value |-> value, res |-> w.res]

WriteSettingSafe ==
    \E path \in PATHS, value \in Values :
        LET w == write_setting_safe(Self, path, value)
        IN /\ Become(w.app)
           /\ ret' = [op |-> "write_setting_safe", path |-> path,
                      value |-> value, res |-> w.res]

WriteSettingsSafe ==
    \E settings \in Mappings(Values) :
        LET w == write_settings_safe(Self, settings)
        IN /\ Become(w.app)
           /\ ret' = [op |-> "write_settings_safe", res |-> w.res]

ReadSettings ==
    \E paths \in {NoValue} \cup {[list |-> l] : l \in PathLists},
       ini \in BOOLEAN :
        LET r == read_settings(
                    Self,
                    IF paths = NoValue THEN KeyList(DOMAIN setting_paths)
                    ELSE paths.list,
                    ini)
        IN /\ ret' = [op |-> "read_settings", raised |-> r.raised]
           /\ UNCHANGED appvars
           /\ UNCHANGED dbvars
           /\ UNCHANGED fsvars

Next ==
    \/ AddSettingPath
    \/ RemoveSettingPath
    \/ AddLqCollection
    \/ SetProtected
    \/ WriteSetting
    \/ WriteSettingSafe
    \/ WriteSettingsSafe
    \/ ReadSettings

Spec == Init /\ [][Next]_vars

----------------------------------------------------------------------------
(* Loading an ini file into a BaseApp *)

\* the registries add_setting_path and remove_setting_path produce
Registries ==
    {r \in UNION {[D -> LQS] : D \in SUBSET PATHS} :
        \A path \in DOMAIN r : LqPath(r[path]) = path}

\* a BaseApp whose collaborators registered, wrote and protected settings;
\* nothing has been proposed yet
InitIni ==
    /\ \E r \in Registries :
         IsDB([BeforeViews EXCEPT !.setting_paths = r])
    /\ val \in [LQS -> Values]
    /\ protected \in [LQS -> BOOLEAN]
    /\ proposed_values = [lq \in LQS |-> [l \in LABELS |-> NoValue]]
    /\ ret = [op |-> "__init__"]

\* settings_load_ini(fname) on a file that holds the mapping settings
SettingsLoadIni ==
    \E fname \in FNAMES, settings \in Mappings(IniStrings) :
        LET w == settings_load_ini(Self, fname, settings)
        IN /\ Become(w.app)
           /\ ret' = [op |-> "settings_load_ini", fname |-> fname,
                      keys |-> DOMAIN w.report]

NextIni == SettingsLoadIni

SpecIni == InitIni /\ [][NextIni]_vars

----------------------------------------------------------------------------
(* Saving the settings of a BaseApp to an ini file and loading them back *)

\* settings_save_ini(fname): ini_io.save_settings replaces the file
SettingsSaveIni ==
    \E fname \in FNAMES :
        LET w == settings_save_ini(Self, fname)
        IN /\ setting_paths' = w.app.setting_paths
           /\ val' = w.app.val
           /\ protected' = w.app.protected
           /\ proposed_values' = w.app.proposed_values
           /\ ini_file' = IF w.raised = None THEN [items |-> w.file]
                          ELSE ini_file
           /\ ret' = [op |-> "settings_save_ini", raised |-> w.raised]
           /\ UNCHANGED dbvars

\* settings_load_ini(fname) on the file that settings_save_ini wrote
LoadSavedIni ==
    /\ ini_file # NoValue
    /\ \E fname \in FNAMES :
        LET w == settings_load_ini(Self, fname, ini_file.items)
        IN /\ Become(w.app)
           /\ ret' = [op |-> "settings_load_ini", fname |-> fname,
                      keys |-> DOMAIN w.report]

NextRT ==
    \/ SettingsSaveIni
    \/ LoadSavedIni
    \/ AddSettingPath
    \/ RemoveSettingPath
    \/ SetProtected
    \/ WriteSetting

SpecRT == InitIni /\ [][NextRT]_vars

----------------------------------------------------------------------------
(* Proposing values to the settings of a BaseApp *)

\* propose_settings_values(name, settings), which returns nothing
ProposeSettingsValues ==
    \E name \in LABELS, settings \in Mappings(IniStrings) :
        /\ Become(propose_settings_values(Self, name, settings))
        /\ ret' = [op |-> "propose_settings_values", name |-> name,
                   keys |-> {settings[i][1] : i \in 1..Len(settings)}]

NextPropose == ProposeSettingsValues

SpecPropose == InitIni /\ [][NextPropose]_vars

----------------------------------------------------------------------------
(* Claims about the BaseApp registry *)

\* the result code of a safe write to path in the state a
SafeCode(a, path) ==
    IF get_lq(a, path) = None THEN "MISSING"
    ELSE IF a.protected[get_lq(a, path)] THEN "PROTECTED"
    ELSE "SUCCESS"

\* C1: in every step that is a write_setting_safe to a path that resolves to a
\* protected setting, the call returns PROTECTED and no value changes; in every
\* step that is a write_setting to a path that resolves, the call returns
\* SUCCESS and the setting holds the given value afterwards, protected or not.
C1_ProtectedWrite ==
    [][/\ (/\ ret'.op = "write_setting_safe"
           /\ get_lq(Self, ret'.path) # None
           /\ protected[get_lq(Self, ret'.path)])
          => (ret'.res = "PROTECTED" /\ val' = val)
       /\ (/\ ret'.op = "write_setting"
           /\ get_lq(Self, ret'.path) # None)
          => (/\ ret'.res = "SUCCESS"
              /\ val'[get_lq(Self, ret'.path)] = ret'.value)]_vars

\* C1, its case: a safe write was refused on a protected setting that an
\* earlier write had set to 1
C1_Witness ==
    /\ ret.op = "write_setting_safe"
    /\ ret.res = "PROTECTED"
    /\ ret.value = PyInt(0)
    /\ val[get_lq(Self, ret.path)] = PyInt(1)

\* C2: in every reachable state and for every input mapping,
\* write_settings_safe returns a report whose keys are exactly the input's
\* paths, each with the code of its own path (MISSING, PROTECTED or SUCCESS)
\* whatever the entries before it were; the settings of the SUCCESS entries
\* hold the given values and no other value changes.
C2_BulkPartialSuccess ==
    \A settings \in Mappings(Values) :
        LET w == write_settings_safe(Self, settings)
            n == Len(settings)
        IN /\ DOMAIN w.res = {settings[i][1] : i \in 1..n}
           /\ \A i \in 1..n :
                /\ w.res[settings[i][1]] = SafeCode(Self, settings[i][1])
                /\ SafeCode(Self, settings[i][1]) = "SUCCESS"
                   => w.app.val[get_lq(Self, settings[i][1])] = settings[i][2]
           /\ \A lq \in LQS :
                (\A i \in 1..n :
                    SafeCode(Self, settings[i][1]) = "SUCCESS"
                    => get_lq(Self, settings[i][1]) # lq)
                => w.app.val[lq] = val[lq]
           /\ w.app.setting_paths = setting_paths
           /\ w.app.protected = protected

\* C2, its case: a bulk write over a missing, a writable and a protected path
C2_Witness ==
    /\ ret.op = "write_settings_safe"
    /\ ret.res = (<<"app", "gone">> :> "MISSING")
                 @@ (<<"app", "x">> :> "SUCCESS")
                 @@ (<<"hw", "y">> :> "PROTECTED")

\* C4: read_settings never raises, whatever paths it is given.
C4_ReadSettingsNeverRaises ==
    ret.op = "read_settings" => ret.raised = None

\* C5: every key of the registry maps to one setting, whose path is the key; a
\* step that registers a setting makes its path resolve to it, leaves the other
\* paths alone, and the setting that was registered at that path before
\* resolves from no path; a step that removes a setting whose path is not
\* registered changes nothing.
C5_LastRegisterWins ==
    [][/\ \A path \in DOMAIN setting_paths' :
            LqPath(setting_paths'[path]) = path
       /\ ret'.op = "add_setting_path"
          => LET old == get_lq(Self, LqPath(ret'.lq))
             IN /\ get_lq(Self', LqPath(ret'.lq)) = ret'.lq
                /\ \A path \in PATHS \ {LqPath(ret'.lq)} :
                        get_lq(Self', path) = get_lq(Self, path)
                /\ old \notin {None, ret'.lq}
                   => \A path \in PATHS : get_lq(Self', path) # old
       /\ (/\ ret'.op = "remove_setting_path"
           /\ LqPath(ret'.lq) \notin DOMAIN setting_paths)
          => UNCHANGED appvars]_vars

\* C5, its case: lq2 was registered at the path where lq1, written before
\* through that path, had been registered
C5_Witness ==
    /\ ret.op = "add_setting_path"
    /\ ret.lq = "lq2"
    /\ get_lq(Self, <<"app", "x">>) = "lq2"
    /\ val["lq1"] = PyInt(1)

----------------------------------------------------------------------------
(* Claims about loading an ini file *)

\* C10 as amended: in every reachable state, for every file name and every
\* content of the file, settings_load_ini applies each loaded path as a safe
\* write does (an unprotected registered setting takes the loaded value, a
\* protected one keeps its value) and then records the raw loaded string as the
\* value proposed under the file's base name by every path that resolves,
\* protected or not; a path that does not resolve records no proposal, so that
\* all other proposals are as they were.
C10_LoadProposesResolved ==
    \A fname \in FNAMES, settings \in Mappings(IniStrings) :
        LET w == settings_load_ini(Self, fname, settings)
            n == Len(settings)
            label == fname[Len(fname)]
            loaded == {get_lq(Self, settings[i][1]) : i \in 1..n}
        IN /\ \A i \in 1..n :
                LET path == settings[i][1]
                    raw == settings[i][2]
                    lq == get_lq(Self, path)
                IN /\ w.report[path] = SafeCode(Self, path)
                   /\ lq # None
                      => /\ w.app.proposed_values[lq][label] = raw
                         /\ w.app.val[lq] = IF protected[lq] THEN val[lq]
                                            ELSE PyInt(ParseInt(raw.str))
           /\ \A lq \in LQS \ loaded :
                /\ w.app.proposed_values[lq] = proposed_values[lq]
                /\ w.app.val[lq] = val[lq]

\* C10, its case: a file was loaded whose value for a registered protected
\* setting is proposed on it and is not its value
C10_Witness ==
    /\ ret.op = "settings_load_ini"
    /\ \E path \in ret.keys :
        /\ get_lq(Self, path) # None
        /\ protected[get_lq(Self, path)]
        /\ proposed_values[get_lq(Self, path)][PathName(ret.fname)]
               = PyStr("1")
        /\ val[get_lq(Self, path)] = PyInt(0)

\* C10 as stated: after settings_load_ini every loaded path that is the path of
\* a setting, registered or no longer registered, has a value proposed under
\* the file's name on a setting of that path.
C10_LoadProposesEveryPath ==
    ret.op = "settings_load_ini"
    => \A path \in ret.keys :
         (\E lq \in LQS : LqPath(lq) = path)
         => \E lq \in LQS :
              /\ LqPath(lq) = path
              /\ proposed_values[lq][PathName(ret.fname)] # NoValue

----------------------------------------------------------------------------
(* Claims about proposing values *)

\* C12: in every reachable state, for every label and every mapping,
\* propose_settings_values leaves the registry, every value and every
\* protected flag as they were; a setting that a path of the mapping resolves
\* to has the mapping's value recorded under the label; a path that does not
\* resolve is skipped, the paths after it being recorded all the same, and a
\* setting that no path of the mapping resolves to keeps its proposals.
C12_ProposeNonDestructive ==
    \A name \in LABELS, settings \in Mappings(IniStrings) :
        LET a == propose_settings_values(Self, name, settings)
            n == Len(settings)
            resolved == {get_lq(Self, settings[i][1]) : i \in 1..n} \ {None}
        IN /\ a.setting_paths = setting_paths
           /\ a.val = val
           /\ a.protected = protected
           /\ \A i \in 1..n :
                LET lq == get_lq(Self, settings[i][1])
                IN lq # None
                   => a.proposed_values[lq][name] = settings[i][2]
           /\ \A lq \in LQS \ resolved :
                a.proposed_values[lq] = proposed_values[lq]

\* C12, its case: values were proposed to a path that does not resolve and to
\* the path of a protected setting, which has the proposal recorded and a
\* value that differs from it
C12_Witness ==
    /\ ret.op = "propose_settings_values"
    /\ \E path \in ret.keys : get_lq(Self, path) = None
    /\ \E path \in ret.keys :
         /\ get_lq(Self, path) # None
         /\ protected[get_lq(Self, path)]
         /\ val[get_lq(Self, path)] = PyInt(1)
         /\ proposed_values[get_lq(Self, path)][ret.name] = PyStr("0")

----------------------------------------------------------------------------
(* Claims about saving and loading back *)

\* the value the ini file holds for path, NoValue if it holds none
Saved(path) ==
    IF ini_file = NoValue
       \/ \A i \in 1..Len(ini_file.items) : ini_file.items[i][1] # path
    THEN NoValue
    ELSE LET i == CHOOSE j \in 1..Len(ini_file.items) :
                      ini_file.items[j][1] = path
         IN ini_file.items[i][2]

\* C11 as amended: every step that loads the saved file back gives each path
\* that was registered at save time and is registered at load time a setting
\* whose string form is the saved string, provided that setting is not
\* protected at load time; a protected setting keeps the value it had before
\* the load.
C11_RoundTripUnprotected ==
    [][(ret'.op = "settings_load_ini" /\ ini_file # NoValue)
       => \A path \in DOMAIN setting_paths :
            Saved(path) # NoValue
            => LET lq == setting_paths[path]
               IN IF protected[lq] THEN val'[lq] = val[lq]
                  ELSE ini_string_value([val |-> val'], lq) = Saved(path)
      ]_vars

\* C11, its case: the saved file was loaded back; an unprotected setting whose
\* path was saved reads back as the saved string, which the load also recorded
\* as proposed, and a protected one whose path was saved does not
C11_Witness ==
    /\ ret.op = "settings_load_ini"
    /\ ini_file # NoValue
    /\ \E path \in DOMAIN setting_paths :
         /\ Saved(path) = PyStr("1")
         /\ ~protected[setting_paths[path]]
         /\ val[setting_paths[path]] = PyInt(1)
         /\ proposed_values[setting_paths[path]][PathName(ret.fname)]
                = PyStr("1")
    /\ \E path \in DOMAIN setting_paths :
         /\ Saved(path) # NoValue
         /\ protected[setting_paths[path]]
         /\ ini_string_value(Self, setting_paths[path]) # Saved(path)

\* C11 as stated: after the saved file has been loaded back, every path that
\* was registered at save time and is registered at load time reads back, in
\* its string form, as the string that was saved.
C11_RoundTrip ==
    (ret.op = "settings_load_ini" /\ ini_file # NoValue)
    => \A path \in DOMAIN setting_paths :
         Saved(path) # NoValue
         => ini_string_value(Self, setting_paths[path]) = Saved(path)

----------------------------------------------------------------------------
(* The DataBrowser state machine *)

\* the calls recorded are those of one step
Fresh(d) == [d EXCEPT !.notified = <<>>, !.plugin_calls = <<>>]

\* DataBrowser.__init__ has run
InitDB ==
    /\ IsDB(Constructed)
    /\ InitLQ
    /\ ret = [op |-> "__init__"]

AddView ==
    \E new_view \in VIEWS :
        /\ BecomeDB(add_view(Fresh(DB), new_view))
        /\ ret' = [op |-> "add_view", view |-> new_view]

AddPlugin ==
    \E plugin \in PLUGINS :
        /\ Len(plugin_update_funcs) < MaxPlugins
        /\ BecomeDB(add_plugin(Fresh(DB), plugin))
        /\ ret' = [op |-> "add_plugin"]

\* settings["data_filename"] = value with a new value: the tree view, the
\* browse widgets or a caller
SetDataFilename ==
    \E value \in FILES \ {s_data_filename} :
        /\ BecomeDB(set_data_filename(Fresh(DB), value))
        /\ ret' = [op |-> "set_data_filename"]

\* settings["view_name"] = value with another one of its choices
SetViewName ==
    \E i \in 1..Len(choices) :
        /\ choices[i] # s_view_name
        /\ BecomeDB(set_view_name(Fresh(DB), choices[i]))
        /\ ret' = [op |-> "set_view_name"]

\* settings["auto_select_view"] = value; the setting has no listener
SetAutoSelectView ==
    \E value \in BOOLEAN \ {s_auto_select_view} :
        /\ BecomeDB([Fresh(DB) EXCEPT !.s_auto_select_view = value])
        /\ ret' = [op |-> "set_auto_select_view"]

AutoSelectView ==
    \E fname \in FILES :
        /\ BecomeDB(Fresh(DB))
        /\ ret' = [op |-> "auto_select_view", fname |-> fname,
                   res |-> auto_select_view(DB, fname)]

GetLq ==
    \E path \in DBPATHS :
        LET r == DataBrowser_get_lq(Fresh(DB), path)
        IN /\ BecomeDB(r.db)
           /\ ret' = [op |-> "get_lq", path |-> path, raised |-> r.raised,
                      res |-> IF r.raised = None THEN r.res ELSE None]

NextDB ==
    \/ AddView
    \/ AddPlugin
    \/ SetDataFilename
    \/ SetViewName
    \/ SetAutoSelectView
    \/ AutoSelectView
    \/ GetLq

SpecDB == InitDB /\ [][NextDB]_vars

----------------------------------------------------------------------------
(* Claims about the DataBrowser *)

\* the names under which views and plugins are registered
ViewNames == {views[i][1] : i \in 1..Len(views)}

\* C3: a get_lq step never raises, and it returns None when the path names the
\* section "view" or "plugin" alone, or a view or plugin that is not
\* registered, whatever its last segment is.
C3_LookupNotFound ==
    ret.op = "get_lq"
    => /\ ret.raised = None
       /\ (/\ ret.path[1] \in {"view", "plugin"}
           /\ \/ Len(ret.path) = 1
              \/ ret.path[1] = "view" /\ ret.path[2] \notin ViewNames
              \/ ret.path[1] = "plugin" /\ ret.path[2] \notin DOMAIN plugins)
          => ret.res = None

\* C6 as amended: auto_select_view returns the name of the last item of views,
\* in the order of the dict, whose view supports the file, and "file_info"
\* when no view does; add_view of a name that is in views replaces the view at
\* the place the name has, and add_view of a new name puts it last: the order
\* is that of the first registration of each name.
C6_AutoSelectDictOrder ==
    [][/\ ret'.op = "auto_select_view"
          => LET sup == {i \in 1..Len(views') :
                            is_file_supported(views'[i][2], ret'.fname)}
             IN ret'.res =
                    IF sup = {} THEN "file_info"
                    ELSE views'[CHOOSE i \in sup : \A j \in sup : j <= i][1]
       /\ ret'.op = "add_view"
          => LET name == ViewName(ret'.view)
                 old == {i \in 1..Len(views) : views[i][1] = name}
             IN /\ Len(views') = IF old = {} THEN Len(views) + 1
                                 ELSE Len(views)
                /\ \A i \in 1..Len(views') :
                     views'[i] = IF i \in old \/ i > Len(views)
                                 THEN <<name, ret'.view>>
                                 ELSE views[i]]_vars

\* C6, its case: A2 was added under the name A, which A1 had before, B being
\* registered after A; of A2 and B1, which both support x.dat, B is selected
C6_Witness ==
    /\ ret.op = "add_view"
    /\ ret.view = "A2"
    /\ view_loaded["A1"]
    /\ views = <<(<<"file_info", "FI">>), (<<"A", "A2">>), (<<"B", "B1">>)>>
    /\ auto_select_view(DB, "x.dat") = "B"

\* C6 as stated: the most recently registered of the supporting views wins,
\* so right after add_view(V) every file V supports selects V's name.
C6_MostRecentlyAddedWins ==
    [][ret'.op = "add_view"
       => \A fname \in FILES :
            is_file_supported(ret'.view, fname)
            => auto_select_view(DB', fname) = ViewName(ret'.view)]_vars

\* a view has been set up once if it is loaded and never otherwise, and the
\* current view is loaded
SetupOnce ==
    /\ \A v \in VIEWS : setup_count[v] = IF view_loaded[v] THEN 1 ELSE 0
    /\ view_loaded[current_view]

\* C7: in every step, a loaded view stays loaded and its setup does not run
\* again; the setup of a view has run exactly once when it is loaded, and not
\* at all before.
C7_SetupExactlyOnce ==
    [][/\ SetupOnce
       /\ SetupOnce'
       /\ \A v \in VIEWS : view_loaded[v] => view_loaded'[v]]_vars

\* C7, its case: the FileInfoView, activated by the constructor, is activated
\* again after A1 was, and its setup has run once
C7_Witness ==
    /\ ret.op = "set_view_name"
    /\ current_view = "FI"
    /\ view_loaded["A1"]
    /\ setup_count["FI"] = 1

\* C8: a step that switches the active view to the registered view V, by a new
\* view_name or by auto-selection on a new data_filename, leaves V loaded (set
\* up in this step if it was not), current, with V's own widget the current
\* widget of view_stack, and notified of data_filename if that is a file.
C8_SwitchShowsView ==
    [][LET target == IF ret'.op = "set_view_name" THEN s_view_name'
                     ELSE auto_select_view(DB, s_data_filename')
           V == ODictGet(views, target)
       IN (\/ ret'.op = "set_view_name"
           \/ /\ ret'.op = "set_data_filename"
              /\ IsFile(s_data_filename')
              /\ s_auto_select_view
              /\ target # ViewName(current_view))
          => /\ current_view' = V
             /\ view_loaded'[V]
             /\ ~view_loaded[V] => setup_count'[V] = setup_count[V] + 1
             /\ view_stack'[stack_index' + 1] = V
             /\ IsFile(s_data_filename')
                => \E i \in 1..Len(notified') :
                     notified'[i] = <<V, s_data_filename'>>]_vars

\* C9: after a step that changes data_filename, the update callbacks called in
\* the step are those of plugin_update_funcs, each once and in order, with the
\* new file name, whatever the view, auto_select_view and the file name are.
C9_PluginsAlwaysUpdated ==
    ret.op = "set_data_filename"
    => plugin_calls = [i \in 1..Len(plugin_update_funcs) |->
                         <<plugin_update_funcs[i], s_data_filename>>]

\* C9, its case: data_filename became a name that is no file, auto-selection
\* off, a view other than the FileInfoView current, two plugins registered
C9_Witness ==
    /\ ret.op = "set_data_filename"
    /\ ~IsFile(s_data_filename)
    /\ ~s_auto_select_view
    /\ current_view # "FI"
    /\ notified = <<>>
    /\ Len(plugin_calls) = 2
    /\ plugin_calls[1][1] # plugin_calls[2][1]

\* C13 as stated: after get_lq has resolved a path 'view/<name>/<setting>'
\* whose <name> is a registered view, that view is Loaded and its setup has
\* run exactly once (so a view that was Unloaded before the lookup has been
\* loaded by it).
C13_LookupLoadsView ==
    (/\ ret.op = "get_lq"
     /\ ret.raised = None
     /\ Len(ret.path) = 3
     /\ ret.path[1] = "view"
     /\ ODictHas(views, ret.path[2]))
    => /\ view_loaded[ODictGet(views, ret.path[2])]
       /\ setup_count[ODictGet(views, ret.path[2])] = 1

\* C14 as stated: in every state reachable after the construction of the
\* DataBrowser there is a current view, it is Loaded, and it is the view object
\* that views holds under the name that the view_name setting holds.
C14_CurrentViewRegistered ==
    /\ current_view \in VIEWS
    /\ view_loaded[current_view]
    /\ ODictHas(views, s_view_name)
    /\ ODictGet(views, s_view_name) = current_view

\* C15 as stated: every change of the data_filename setting to an existing
\* file notifies the view that is current afterwards of that file exactly
\* once, and notifies no other view, whether or not the automatic selection
\* switched the view; a change to a name that is not an existing file
\* notifies no view and leaves the current view as it was.
C15_NotifiedExactlyOnce ==
    [][ret'.op = "set_data_filename"
       => IF IsFile(s_data_filename')
          THEN notified' = << <<current_view', s_data_filename'>> >>
          ELSE notified' = <<>> /\ current_view' = current_view
      ]_vars

====
